---- MODULE Spec2Model ----
(***************************************************************************)
(* Caption -> Narration conversion engine (convert_narration_script) of    *)
(* c_to_n_withGEMINI.py, as a state machine over one invocation.           *)
(*                                                                         *)
(* Strings are sequences of characters.  A half-width character is the     *)
(* one-character string itself ("0", ":", "N", " ").  A full-width         *)
(* character is written "Z" followed by its half-width form ("Z0" is       *)
(* U+FF10, "Z:" is U+FF1A, "ZN" is U+FF2E, "Zsp" is U+3000).  Other        *)
(* characters have a name: "Zwave" U+301C, "Ztilde" U+FF5E, "HAN" U+534A,  *)
(* "LB"/"RB" U+3010/U+3011, "KA"/"KI" two hiragana letters.                *)
(***************************************************************************)
EXTENDS Integers, Sequences, FiniteSets, TLC

VARIABLES
    text,                     \* the input, one string per '\n'-separated line
    n_force_insert_flag,      \* option forceNarratorTag
    mm_ss_colon_flag,         \* option colonSeparatedTime
    pc,                       \* position in convert_narration_script
    lines,                    \* text.strip().split('\n')
    start_index,              \* index (0-based) of the first timecode line, -1 if none
    blocks,                   \* raw {time, text} pairs
    parsed_blocks,            \* parsed blocks
    narration_blocks_for_ai,  \* reviewPayload
    i,                        \* index of the formatter loop (0-based)
    previous_end_hh,          \* end hour carried across formatter iterations
    output_lines,             \* the script, line by line
    result,                   \* "none" | "error" | "ok"
    ai_check_flag,            \* the review checkbox
    ai_cache_key,             \* st.session_state["ai_cache_key"], <<>> for None
    ai_result_cache,          \* st.session_state["ai_result_cache"]
    display_text,             \* the text of the output area
    ui_pc,                    \* position of the page script
    invoked,                  \* the review service was called in this rerun
    last_call,                \* history: <<input and payload of the latest call>>
    prev_call                 \* history: last_call when this rerun began

review_vars == <<ai_check_flag, ai_cache_key, ai_result_cache, display_text, ui_pc,
                 invoked, last_call, prev_call>>

vars == <<text, n_force_insert_flag, mm_ss_colon_flag, pc, lines, start_index,
          blocks, parsed_blocks, narration_blocks_for_ai, i, previous_end_hh,
          output_lines, result, review_vars>>

----------------------------------------------------------------------------
(* Characters and the translation tables (source lines 376-384).           *)

HalfDigits == <<"0", "1", "2", "3", "4", "5", "6", "7", "8", "9">>
FullDigits == <<"Z0", "Z1", "Z2", "Z3", "Z4", "Z5", "Z6", "Z7", "Z8", "Z9">>

InSeq(c, s) == \E k \in 1..Len(s) : s[k] = c
IndexOf(c, s) == CHOOSE k \in 1..Len(s) : s[k] = c

\* str.translate with a table built by str.maketrans(from, to)
TranslateChar(c, from, to) == IF InSeq(c, from) THEN to[IndexOf(c, from)] ELSE c
TranslateStr(s, from, to) == [k \in 1..Len(s) |-> TranslateChar(s[k], from, to)]

hankaku_symbols == <<"!", "@", "#", "$", "%", "&", "-", "+", "=">>
zenkaku_symbols == <<"Z!", "Z@", "Z#", "Z$", "Z%", "Z&", "Z-", "Z+", "Z=">>

LowerLetters ==
    <<"a", "b", "c", "d", "e", "f", "g", "h", "i", "j", "k", "l", "m",
      "n", "o", "p", "q", "r", "s", "t", "u", "v", "w", "x", "y", "z">>
UpperLetters ==
    <<"A", "B", "C", "D", "E", "F", "G", "H", "I", "J", "K", "L", "M",
      "N", "O", "P", "Q", "R", "S", "T", "U", "V", "W", "X", "Y", "Z">>
FullLowerLetters ==
    <<"Za", "Zb", "Zc", "Zd", "Ze", "Zf", "Zg", "Zh", "Zi", "Zj", "Zk", "Zl", "Zm",
      "Zn", "Zo", "Zp", "Zq", "Zr", "Zs", "Zt", "Zu", "Zv", "Zw", "Zx", "Zy", "Zz">>
FullUpperLetters ==
    <<"ZA", "ZB", "ZC", "ZD", "ZE", "ZF", "ZG", "ZH", "ZI", "ZJ", "ZK", "ZL", "ZM",
      "ZN", "ZO", "ZP", "ZQ", "ZR", "ZS", "ZT", "ZU", "ZV", "ZW", "ZX", "ZY", "ZZ">>

hankaku_chars == LowerLetters \o UpperLetters \o HalfDigits \o <<" ">> \o hankaku_symbols
zenkaku_chars ==
    FullLowerLetters \o FullUpperLetters \o FullDigits \o <<"Zsp">> \o zenkaku_symbols

to_zenkaku_num(s) == TranslateStr(s, HalfDigits, FullDigits)
to_zenkaku_all(s) == TranslateStr(s, hankaku_chars, zenkaku_chars)
to_hankaku_time(s) ==
    TranslateStr(s, FullDigits \o <<"Z:", "Zwave">>, HalfDigits \o <<":", "~">>)

\* str.replace('~', '-')
ReplaceTilde(s) == [k \in 1..Len(s) |-> IF s[k] = "~" THEN "-" ELSE s[k]]

\* \d of a str pattern matches every Unicode decimal digit, full-width included
IsDigit(c) == InSeq(c, HalfDigits) \/ InSeq(c, FullDigits)
DigitVal(c) == IF InSeq(c, HalfDigits) THEN IndexOf(c, HalfDigits) - 1
               ELSE IndexOf(c, FullDigits) - 1

\* \s and str.strip(): the ASCII space and U+3000 are both white space
IsSpace(c) == c \in {" ", "Zsp"}

\* str.upper() on one character
UpperChar(c) == TranslateChar(TranslateChar(c, LowerLetters, UpperLetters),
                              FullLowerLetters, FullUpperLetters)
Upper(s) == [k \in 1..Len(s) |-> UpperChar(s[k])]

RECURSIVE LStrip(_)
LStrip(s) == IF s # <<>> /\ IsSpace(Head(s)) THEN LStrip(Tail(s)) ELSE s

RECURSIVE RStrip(_)
RStrip(s) == IF s # <<>> /\ IsSpace(s[Len(s)]) THEN RStrip(SubSeq(s, 1, Len(s) - 1)) ELSE s

\* str.strip()
Strip(s) == RStrip(LStrip(s))

----------------------------------------------------------------------------
(* Normalisation and the dual-timecode pattern (source lines 388-393).     *)

\* \d{2}:\d{2}:\d{2} at position p
IsTriple(s, p) ==
    /\ p + 7 <= Len(s)
    /\ IsDigit(s[p]) /\ IsDigit(s[p + 1]) /\ s[p + 2] = ":"
    /\ IsDigit(s[p + 3]) /\ IsDigit(s[p + 4]) /\ s[p + 5] = ":"
    /\ IsDigit(s[p + 6]) /\ IsDigit(s[p + 7])

\* [:.]\d{2} at position p (the negative lookahead's pattern)
FrameFollows(s, p) ==
    /\ p + 2 <= Len(s)
    /\ s[p] \in {":", "."}
    /\ IsDigit(s[p + 1]) /\ IsDigit(s[p + 2])

\* re.sub(r'(\d{2}:\d{2}:\d{2})(?![:.]\d{2})', r'\1.00', s), scanning from p
RECURSIVE SubFrames(_, _)
SubFrames(s, p) ==
    IF p > Len(s) THEN <<>>
    ELSE IF IsTriple(s, p) /\ ~FrameFollows(s, p + 8)
         THEN SubSeq(s, p, p + 7) \o <<".", "0", "0">> \o SubFrames(s, p + 8)
         ELSE <<s[p]>> \o SubFrames(s, p + 1)

line_with_frames(s) == SubFrames(s, 1)

\* the scanner's normalisation of a line (lines 391-392)
normalized_line(s) == ReplaceTilde(to_hankaku_time(Strip(line_with_frames(s))))

\* the assembler's and the parser's normalisation (lines 405-407, 414, 426-427)
normalized_stripped(s) == ReplaceTilde(to_hankaku_time(line_with_frames(Strip(s))))

\* (\d{2})[:;](\d{2})[:;](\d{2})[;.](\d{2}) at position p
IsTimecodeAt(s, p) ==
    /\ p >= 1 /\ p + 10 <= Len(s)
    /\ IsDigit(s[p]) /\ IsDigit(s[p + 1]) /\ s[p + 2] \in {":", ";"}
    /\ IsDigit(s[p + 3]) /\ IsDigit(s[p + 4]) /\ s[p + 5] \in {":", ";"}
    /\ IsDigit(s[p + 6]) /\ IsDigit(s[p + 7]) /\ s[p + 8] \in {";", "."}
    /\ IsDigit(s[p + 9]) /\ IsDigit(s[p + 10])

\* \s* from position p: the first position that holds no white space
RECURSIVE SkipSpaces(_, _)
SkipSpaces(s, p) == IF p <= Len(s) /\ IsSpace(s[p]) THEN SkipSpaces(s, p + 1) ELSE p

\* position of the second timecode of a match of time_pattern, 0 if no match
EndTimecodePos(s) ==
    IF ~IsTimecodeAt(s, 1) THEN 0
    ELSE LET a == SkipSpaces(s, 12)
         IN  IF a <= Len(s) /\ s[a] = "-"
             THEN LET b == SkipSpaces(s, a + 1)
                  IN  IF IsTimecodeAt(s, b) THEN b ELSE 0
             ELSE 0

\* re.match(time_pattern, s) succeeds
time_pattern(s) == EndTimecodePos(s) # 0

\* int() of the two digits at p
Int2(s, p) == DigitVal(s[p]) * 10 + DigitVal(s[p + 1])

\* time_match.groups() as integers (line 433)
groups(s) ==
    LET b == EndTimecodePos(s)
    IN  <<Int2(s, 1), Int2(s, 4), Int2(s, 7), Int2(s, 10),
          Int2(s, b), Int2(s, b + 3), Int2(s, b + 6), Int2(s, b + 9)>>

----------------------------------------------------------------------------
(* Python float arithmetic (IEEE 754 binary64, round to nearest even) on   *)
(* the values of lines 374 and 546-548.  A non-negative float x is held    *)
(* exactly as the natural number x * 2^64, written in four limbs of 24     *)
(* bits, least significant first: every float met here is below 2^19 and   *)
(* a multiple of 2^-57.                                                    *)

FRAME_RATE == 30
MantissaBits == 53

LimbBase == 2 ^ 24

BAdd(a, b) ==
    LET s1 == a[1] + b[1]
        s2 == a[2] + b[2] + (s1 \div LimbBase)
        s3 == a[3] + b[3] + (s2 \div LimbBase)
        s4 == a[4] + b[4] + (s3 \div LimbBase)
    IN  <<s1 % LimbBase, s2 % LimbBase, s3 % LimbBase, s4>>

\* a - b, for a >= b
BSub(a, b) ==
    LET d1 == a[1] - b[1]
        d2 == a[2] - b[2] - (IF d1 < 0 THEN 1 ELSE 0)
        d3 == a[3] - b[3] - (IF d2 < 0 THEN 1 ELSE 0)
        d4 == a[4] - b[4] - (IF d3 < 0 THEN 1 ELSE 0)
    IN  <<(d1 + LimbBase) % LimbBase, (d2 + LimbBase) % LimbBase,
          (d3 + LimbBase) % LimbBase, d4>>

BLess(a, b) ==
    \/ a[4] < b[4]
    \/ a[4] = b[4] /\ a[3] < b[3]
    \/ a[4] = b[4] /\ a[3] = b[3] /\ a[2] < b[2]
    \/ a[4] = b[4] /\ a[3] = b[3] /\ a[2] = b[2] /\ a[1] < b[1]

\* number of significant bits of a limb, of a number
LimbBits(v) == CHOOSE n \in 0..30 : v < 2 ^ n /\ (n = 0 \/ 2 ^ (n - 1) <= v)
BitLen(a) ==
    IF a[4] # 0 THEN 72 + LimbBits(a[4])
    ELSE IF a[3] # 0 THEN 48 + LimbBits(a[3])
    ELSE IF a[2] # 0 THEN 24 + LimbBits(a[2])
    ELSE LimbBits(a[1])

\* 2^n, a mod 2^n, bit n of a
BPow2(n) == [k \in 1..4 |-> IF k = (n \div 24) + 1 THEN 2 ^ (n % 24) ELSE 0]
BModPow2(a, n) ==
    [k \in 1..4 |-> IF 24 * k <= n THEN a[k]
                    ELSE IF 24 * (k - 1) >= n THEN 0
                    ELSE a[k] % (2 ^ (n - 24 * (k - 1)))]
BBit(a, n) == (a[(n \div 24) + 1] \div (2 ^ (n % 24))) % 2

\* the float nearest to a (+ a non-zero part below 2^-64 when sticky), ties to even
RoundToDouble(a, sticky) ==
    LET n == BitLen(a) - MantissaBits
    IN  IF n <= 0 THEN a
        ELSE LET low == BModPow2(a, n)
                 half == BPow2(n - 1)
                 up == \/ BLess(half, low)
                       \/ low = half /\ (sticky \/ BBit(a, n) = 1)
             IN  IF up THEN BAdd(BSub(a, low), BPow2(n)) ELSE BSub(a, low)

\* float(n) for an int 0 <= n < 2^19: exact
FloatOfInt(n) == <<0, 0, (n % 256) * 65536, n \div 256>>

\* float(n) / float(d) for ints 0 <= n < 2^19, 0 < d < 128
FloatDiv(n, d) ==
    LET x == FloatOfInt(n)
        q4 == x[4] \div d
        t3 == (x[4] % d) * LimbBase + x[3]
        t2 == (t3 % d) * LimbBase + x[2]
        t1 == (t2 % d) * LimbBase + x[1]
    IN  RoundToDouble(<<t1 \div d, t2 \div d, t3 \div d, q4>>, t1 % d # 0)

FloatAdd(a, b) == RoundToDouble(BAdd(a, b), FALSE)

\* a - b < c for floats a, b >= 0 and c > 0
FloatDiffLess(a, b, c) ==
    IF BLess(a, b) THEN TRUE ELSE BLess(RoundToDouble(BSub(a, b), FALSE), c)

\* CONNECTION_THRESHOLD = 1.0 + (10.0 / FRAME_RATE)
CONNECTION_THRESHOLD == FloatAdd(FloatOfInt(1), FloatDiv(10, FRAME_RATE))

\* (hh * 3600) + (mm * 60) + ss + (fr / FRAME_RATE)
total_seconds(hh, mm, ss, fr) ==
    FloatAdd(FloatOfInt((hh * 3600) + (mm * 60) + ss), FloatDiv(fr, FRAME_RATE))

\* next_start_total_seconds - end_total_seconds < CONNECTION_THRESHOLD (line 548)
IsConnected(block, next_block) ==
    FloatDiffLess(
        total_seconds(next_block.start_hh, next_block.start_mm,
                      next_block.start_ss, next_block.start_fr),
        total_seconds(block.end_hh, block.end_mm, block.end_ss, block.end_fr),
        CONNECTION_THRESHOLD)

----------------------------------------------------------------------------
(* Scanner, assembler and parser (source lines 386-444).                   *)

RECURSIVE DropBlankHead(_)
DropBlankHead(t) ==
    IF t # <<>> /\ Strip(Head(t)) = <<>> THEN DropBlankHead(Tail(t)) ELSE t

RECURSIVE DropBlankTail(_)
DropBlankTail(t) ==
    IF t # <<>> /\ Strip(t[Len(t)]) = <<>>
    THEN DropBlankTail(SubSeq(t, 1, Len(t) - 1)) ELSE t

\* text.strip().split('\n'): white space, newlines included, leaves both ends
StripSplit(t) ==
    LET u == DropBlankTail(DropBlankHead(t))
    IN  IF u = <<>> THEN << <<>> >>
        ELSE IF Len(u) = 1 THEN <<Strip(u[1])>>
        ELSE <<LStrip(u[1])>> \o SubSeq(u, 2, Len(u) - 1) \o <<RStrip(u[Len(u)])>>

\* a scanner that tests the first line only
FindStartFirstLineOnly(ls) ==
    IF ls # <<>> /\ time_pattern(normalized_line(ls[1])) THEN 0 ELSE -1

\* the scanner's loop: 0-based index of the first matching line, -1 if none
FindStart(ls) ==
    IF \E k \in 1..Len(ls) : time_pattern(normalized_line(ls[k]))
    THEN (CHOOSE k \in 1..Len(ls) :
              /\ time_pattern(normalized_line(ls[k]))
              /\ \A j \in 1..(k - 1) : ~time_pattern(normalized_line(ls[j]))) - 1
    ELSE -1

\* an assembler that takes the next line as the text whatever it holds
RECURSIVE AssembleTakingNextLine(_, _)
AssembleTakingNextLine(rl, k) ==
    IF k > Len(rl) THEN <<>>
    ELSE IF time_pattern(normalized_stripped(rl[k]))
         THEN <<[time |-> Strip(rl[k]),
                 text |-> IF k + 1 <= Len(rl) THEN Strip(rl[k + 1]) ELSE <<>>]>>
              \o AssembleTakingNextLine(rl, k + 2)
         ELSE AssembleTakingNextLine(rl, k + 1)

\* the assembler's while loop over relevant_lines, from cursor k (1-based)
RECURSIVE AssembleFrom(_, _)
AssembleFrom(rl, k) ==
    IF k > Len(rl) THEN <<>>
    ELSE IF time_pattern(normalized_stripped(rl[k]))
         THEN LET has_text == /\ k + 1 <= Len(rl)
                              /\ ~time_pattern(normalized_stripped(rl[k + 1]))
              IN  <<[time |-> Strip(rl[k]),
                     text |-> IF has_text THEN Strip(rl[k + 1]) ELSE <<>>]>>
                  \o AssembleFrom(rl, IF has_text THEN k + 2 ELSE k + 1)
         ELSE AssembleFrom(rl, k + 1)

\* the parser's normalisation of block['time'] (no strip: lines 426-427)
normalized_time_str(s) == ReplaceTilde(to_hankaku_time(line_with_frames(s)))

ParseBlock(block) ==
    LET g == groups(normalized_time_str(block.time))
    IN  [start_hh |-> g[1], start_mm |-> g[2], start_ss |-> g[3], start_fr |-> g[4],
         end_hh |-> g[5], end_mm |-> g[6], end_ss |-> g[7], end_fr |-> g[8],
         text |-> block.text]

\* the parser's loop: the blocks whose time label matches, in order
RECURSIVE Matching(_)
Matching(bs) ==
    IF bs = <<>> THEN <<>>
    ELSE IF time_pattern(normalized_time_str(Head(bs).time))
         THEN <<Head(bs)>> \o Matching(Tail(bs))
         ELSE Matching(Tail(bs))

ParseAll(bs) == LET m == Matching(bs) IN [k \in 1..Len(m) |-> ParseBlock(m[k])]
AiData(bs) ==
    LET m == Matching(bs)
    IN  [k \in 1..Len(m) |-> [time |-> Strip(m[k].time), text |-> Strip(m[k].text)]]

----------------------------------------------------------------------------
(* Display formatter (source lines 446-575).                               *)

\* f"{n:02d}" for 0 <= n <= 99, str(n) for 0 <= n <= 99
Fmt02(n) == <<HalfDigits[(n \div 10) + 1], HalfDigits[(n % 10) + 1]>>
Str(n) == IF n < 10 THEN <<HalfDigits[n + 1]>> ELSE Fmt02(n)

\* a marker rule that compares the start hour with >= instead of >
HourMarkerNotEarlier(k, block, prev_end_hh) ==
    IF k = 0
    THEN IF block.start_hh > 0 THEN <<TRUE, block.start_hh>> ELSE <<FALSE, -1>>
    ELSE IF block.start_hh < block.end_hh THEN <<TRUE, block.end_hh>>
         ELSE IF block.start_hh >= prev_end_hh THEN <<TRUE, block.start_hh>>
         ELSE <<FALSE, -1>>

\* lines 450-464: <<should_insert_h_marker, marker_hh_to_display>>
HourMarker(k, block, prev_end_hh) ==
    IF k = 0
    THEN IF block.start_hh > 0 THEN <<TRUE, block.start_hh>> ELSE <<FALSE, -1>>
    ELSE IF block.start_hh < block.end_hh THEN <<TRUE, block.end_hh>>
         ELSE IF block.start_hh > prev_end_hh THEN <<TRUE, block.start_hh>>
         ELSE <<FALSE, -1>>

\* lines 466-468
MarkerLines(k, block, prev_end_hh) ==
    LET m == HourMarker(k, block, prev_end_hh)
    IN  IF m[1] THEN << <<>>, <<"LB">> \o to_zenkaku_num(Str(m[2])) \o <<"ZH", "RB">> >>
        ELSE <<>>

\* a half band that reaches frame 23
IsHalfTimeTo23(start_fr) == 10 <= start_fr /\ start_fr <= 23

\* lines 479, 484: the frame bands
IsHalfTime(start_fr) == 10 <= start_fr /\ start_fr <= 22
RoundsUp(start_fr) == ~(0 <= start_fr /\ start_fr <= 9) /\ ~IsHalfTime(start_fr)

\* lines 473-495
StartSeconds(block) ==
    (block.start_mm % 60) * 60 + block.start_ss
    + (IF RoundsUp(block.start_fr) THEN 1 ELSE 0)
base_time_str(block) ==
    Fmt02((StartSeconds(block) \div 60) % 60) \o Fmt02(StartSeconds(block) % 60)
spacer(block) ==
    IF IsHalfTime(block.start_fr) THEN <<"Zsp", "Zsp">> ELSE <<"Zsp", "Zsp", "Zsp">>

\* a colon label built from the start time before its rounding
colon_time_str_unrounded(block, colon) ==
    IF colon
    THEN Fmt02(block.start_mm % 60) \o <<"Z:">> \o Fmt02(block.start_ss % 60)
    ELSE base_time_str(block)

\* lines 497-502
colon_time_str(block, colon) ==
    IF colon
    THEN SubSeq(base_time_str(block), 1, 2) \o <<"Z:">> \o SubSeq(base_time_str(block), 3, 4)
    ELSE base_time_str(block)

\* lines 504-507
formatted_start_time(block, colon) ==
    IF IsHalfTime(block.start_fr)
    THEN to_zenkaku_num(colon_time_str(block, colon)) \o <<"HAN">>
    ELSE to_zenkaku_num(colon_time_str(block, colon))

\* the fixed text of lines 532 and 537 (nine characters)
NoBodyText == <<"REFMARK", "CHUU", "YI", "Z!", "HON", "BUN", "NA", "SHI", "Z!">>

\* re.match(r'^(\S+)\s+(.*)', t): length of group 1, 0 if no match
RECURSIVE TokenEnd(_, _)
TokenEnd(t, p) == IF p <= Len(t) /\ ~IsSpace(t[p]) THEN TokenEnd(t, p + 1) ELSE p
SpeakerLen(t) ==
    LET e == TokenEnd(t, 1)
    IN  IF e > 1 /\ e <= Len(t) THEN e - 1 ELSE 0

StartsWith(t, pre) == Len(t) >= Len(pre) /\ SubSeq(t, 1, Len(pre)) = pre

\* lines 513-530: the body before the empty-body check, force mode on
ForcedBody(t) ==
    IF SpeakerLen(t) > 0
    THEN Strip(SubSeq(t, SkipSpaces(t, SpeakerLen(t) + 1), Len(t)))
    ELSE IF Upper(t) = <<"N">> \/ t = <<"ZN">> THEN <<>>
    ELSE IF StartsWith(t, <<"ZN", " ">>) THEN Strip(SubSeq(t, 3, Len(t)))
    ELSE IF StartsWith(t, <<"N", " ">>) THEN Strip(SubSeq(t, 3, Len(t)))
    ELSE t

\* a custom speaker symbol left in half width
speaker_symbol_raw(t, force) ==
    IF ~force THEN <<>>
    ELSE IF SpeakerLen(t) > 0 /\ Upper(SubSeq(t, 1, SpeakerLen(t))) # <<"N">>
         THEN SubSeq(t, 1, SpeakerLen(t))
         ELSE <<"ZN">>

\* lines 509-521, 534
speaker_symbol(t, force) ==
    IF ~force THEN <<>>
    ELSE IF SpeakerLen(t) > 0 /\ Upper(SubSeq(t, 1, SpeakerLen(t))) # <<"N">>
         THEN to_zenkaku_all(SubSeq(t, 1, SpeakerLen(t)))
         ELSE <<"ZN">>

\* a body that loses its narrator token also when force mode is off
body_stripping_narrator(t, force) ==
    to_zenkaku_all(IF ForcedBody(t) = <<>> THEN NoBodyText ELSE ForcedBody(t))

\* lines 531-539
body(t, force) ==
    IF force
    THEN to_zenkaku_all(IF ForcedBody(t) = <<>> THEN NoBodyText ELSE ForcedBody(t))
    ELSE to_zenkaku_all(IF Strip(t) = <<>> THEN NoBodyText ELSE t)

\* lines 541-549
add_blank_line(bs, k) ==
    ~(k + 1 < Len(bs) /\ IsConnected(bs[k + 1], bs[k + 2]))

\* an end time whose second wraps to 59 without borrowing from the minute
AdjustedEndNoBorrow(block) ==
    LET dec == IF 0 <= block.end_fr /\ block.end_fr <= 9
               THEN block.end_ss - 1 ELSE block.end_ss
    IN  IF dec < 0 THEN <<block.end_mm % 60, 59>>
        ELSE <<block.end_mm % 60, dec>>

\* lines 552-560: <<adj_mm_display, adj_ss>>
AdjustedEnd(block) ==
    LET dec == IF 0 <= block.end_fr /\ block.end_fr <= 9
               THEN block.end_ss - 1 ELSE block.end_ss
    IN  IF dec < 0 THEN <<(block.end_mm - 1) % 60, 59>>
        ELSE <<block.end_mm % 60, dec>>

\* lines 562-565
formatted_end_time(block) ==
    LET a == AdjustedEnd(block)
    IN  IF block.start_hh # block.end_hh \/ (block.start_mm % 60) # a[1]
        THEN to_zenkaku_num(Fmt02(a[1]) \o Fmt02(a[2]))
        ELSE to_zenkaku_num(Fmt02(a[2]))

\* lines 541, 551, 567
end_string(bs, k) ==
    IF add_blank_line(bs, k)
    THEN <<" ", "(", "Ztilde">> \o formatted_end_time(bs[k + 1]) \o <<")">>
    ELSE <<>>

\* lines 569-572
RenderedLine(bs, k, force, colon) ==
    LET block == bs[k + 1]
    IN  IF force
        THEN formatted_start_time(block, colon) \o spacer(block)
             \o speaker_symbol(block.text, force) \o <<"Zsp">>
             \o body(block.text, force) \o end_string(bs, k)
        ELSE formatted_start_time(block, colon) \o spacer(block)
             \o body(block.text, force) \o end_string(bs, k)

\* lines 574-575
TrailingBlank(bs, k) ==
    IF add_blank_line(bs, k) /\ k < Len(bs) - 1 THEN << <<>> >> ELSE <<>>

\* everything one iteration of the loop of line 446 appends to output_lines
IterationLines(bs, k, prev_end_hh, force, colon) ==
    MarkerLines(k, bs[k + 1], prev_end_hh)
    \o <<RenderedLine(bs, k, force, colon)>>
    \o TrailingBlank(bs, k)

\* the loop of line 446 as a whole: the script of blocks k.. (0-based)
RECURSIVE ScriptFrom(_, _, _, _)
ScriptFrom(bs, k, force, colon) ==
    IF k >= Len(bs) THEN <<>>
    ELSE IterationLines(bs, k, IF k = 0 THEN -1 ELSE bs[k].end_hh, force, colon)
         \o ScriptFrom(bs, k + 1, force, colon)

\* convert_narration_script(t, force, colon) as a whole
convert_narration_script(t, force, colon) ==
    LET ls == StripSplit(t)
        bs == AssembleFrom(SubSeq(ls, FindStart(ls) + 1, Len(ls)), 1)
    IN  IF FindStart(ls) = -1
        THEN [result |-> "error", narration_script |-> <<>>, ai_data |-> <<>>]
        ELSE [result |-> "ok",
              narration_script |-> ScriptFrom(ParseAll(bs), 0, force, colon),
              ai_data |-> AiData(bs)]

----------------------------------------------------------------------------
(* The review layer of the page (source lines 20-62, 243-323, 661-715).    *)
(* A multi-line string is a sequence of characters with "\n" as the line   *)
(* break.  "SENTINEL" is the phrase of line 294 that reports no findings,  *)
(* "TADASHIKUWA" and "DEWA" are the two words of the note of line 274.     *)

\* the concatenation of the sequences of ps
RECURSIVE Flatten(_)
Flatten(ps) == IF ps = <<>> THEN <<>> ELSE Head(ps) \o Flatten(Tail(ps))

\* "\n".join(ls)
RECURSIVE JoinLines(_)
JoinLines(ls) ==
    IF ls = <<>> THEN <<>>
    ELSE IF Len(ls) = 1 THEN ls[1]
    ELSE ls[1] \o <<"\n">> \o JoinLines(Tail(ls))

\* s.split(sep) for a one-character separator
RECURSIVE SplitOn(_, _)
SplitOn(s, sep) ==
    IF ~InSeq(sep, s) THEN <<s>>
    ELSE LET k == CHOOSE j \in 1..Len(s) :
                      s[j] = sep /\ \A h \in 1..(j - 1) : s[h] # sep
         IN  <<SubSeq(s, 1, k - 1)>> \o SplitOn(SubSeq(s, k + 1, Len(s)), sep)

\* s.splitlines(): no line for the empty string, none after a final line break
SplitLines(s) ==
    IF s = <<>> THEN <<>>
    ELSE LET ps == SplitOn(s, "\n")
         IN  IF ps[Len(ps)] = <<>> THEN SubSeq(ps, 1, Len(ps) - 1) ELSE ps

\* sub in s
Contains(s, sub) ==
    \E k \in 0..(Len(s) - Len(sub)) : SubSeq(s, k + 1, k + Len(sub)) = sub

\* s.strip() of a multi-line string: line breaks are white space too
RECURSIVE StripText(_)
StripText(s) ==
    IF s # <<>> /\ (IsSpace(Head(s)) \/ Head(s) = "\n") THEN StripText(Tail(s))
    ELSE IF s # <<>> /\ (IsSpace(s[Len(s)]) \/ s[Len(s)] = "\n")
         THEN StripText(SubSeq(s, 1, Len(s) - 1))
    ELSE s

\* s.strip("|")
RECURSIVE StripBars(_)
StripBars(s) ==
    IF s # <<>> /\ Head(s) = "|" THEN StripBars(Tail(s))
    ELSE IF s # <<>> /\ s[Len(s)] = "|" THEN StripBars(SubSeq(s, 1, Len(s) - 1))
    ELSE s

\* re.match(r"^\|\s*---", ln)
IsRuleLine(ln) ==
    /\ ln # <<>> /\ ln[1] = "|"
    /\ LET a == SkipSpaces(ln, 2)
       IN  a + 2 <= Len(ln) /\ ln[a] = "-" /\ ln[a + 1] = "-" /\ ln[a + 2] = "-"

\* lines 298-299: the stripped non-empty lines that begin and end with '|'
table_lines(ai_md) ==
    LET ls == SplitLines(StripText(ai_md))
        stripped == [k \in 1..Len(ls) |-> Strip(ls[k])]
    IN  SelectSeq(stripped, LAMBDA ln : ln # <<>> /\ ln[1] = "|" /\ ln[Len(ln)] = "|")

\* lines 301-308: the table lines after the first rule line, rule lines left out
RECURSIVE DataLinesFrom(_, _)
DataLinesFrom(tl, header_seen) ==
    IF tl = <<>> THEN <<>>
    ELSE IF IsRuleLine(Head(tl)) THEN DataLinesFrom(Tail(tl), TRUE)
    ELSE IF header_seen THEN <<Head(tl)>> \o DataLinesFrom(Tail(tl), TRUE)
    ELSE DataLinesFrom(Tail(tl), FALSE)

\* line 313
cells(row) ==
    LET ps == SplitOn(StripBars(row), "|") IN [k \in 1..Len(ps) |-> Strip(ps[k])]

\* lines 310-323
RECURSIVE RecordsOf(_)
RecordsOf(data_lines) ==
    IF data_lines = <<>> THEN <<>>
    ELSE LET c == cells(Head(data_lines))
         IN  (IF Len(c) < 4 THEN <<>>
              ELSE <<[pos |-> c[1], orig |-> c[2], proposal |-> c[3], reason |-> c[4]]>>)
             \o RecordsOf(Tail(data_lines))

\* _parse_ai_markdown_table of line 288, the definition in force
parse_ai_markdown_table(ai_md) ==
    IF ai_md = <<>> \/ Contains(ai_md, <<"SENTINEL">>) THEN <<>>
    ELSE RecordsOf(DataLinesFrom(table_lines(ai_md), FALSE))

\* (f.get(key) or "").strip()
GetStripped(f, key) == IF key \in DOMAIN f THEN Strip(f[key]) ELSE <<>>

\* line 274
INDENT == [k \in 1..9 |-> "Zsp"]
NoteOf(suggest) == INDENT \o <<"REFMARK", "TADASHIKUWA">> \o suggest \o <<"DEWA", "Z?">>

\* lines 262-268: the findings that match the line
matches_for_this_line(line, findings) ==
    SelectSeq(findings,
              LAMBDA f : /\ GetStripped(f, "orig") # <<>>
                         /\ GetStripped(f, "suggest") # <<>>
                         /\ Contains(line, GetStripped(f, "orig")))

\* lines 256-275: a line followed by the notes of its matches
AnnotatedLine(line, findings) ==
    LET m == matches_for_this_line(line, findings)
    IN  <<line>> \o [k \in 1..Len(m) |-> NoteOf(m[k]["suggest"])]

\* _annotate_narration_with_ai_notes of line 243, the definition in force
annotate_narration_with_ai_notes(narration_text, findings) ==
    IF findings = <<>> THEN narration_text
    ELSE LET ls == SplitLines(narration_text)
         IN  JoinLines(Flatten([k \in 1..Len(ls) |-> AnnotatedLine(ls[k], findings)]))

----------------------------------------------------------------------------
(* One invocation of convert_narration_script as a state machine.          *)

\* lines 386-395, a timecode line found
ScanFound ==
    /\ pc = "scan"
    /\ FindStart(StripSplit(text)) # -1
    /\ lines' = StripSplit(text)
    /\ start_index' = FindStart(StripSplit(text))
    /\ pc' = "assemble"
    /\ UNCHANGED <<text, n_force_insert_flag, mm_ss_colon_flag, blocks, parsed_blocks,
                   narration_blocks_for_ai, i, previous_end_hh, output_lines, result>>
    /\ UNCHANGED review_vars

\* lines 386-398, no timecode line: the error is returned
ScanNotFound ==
    /\ pc = "scan"
    /\ FindStart(StripSplit(text)) = -1
    /\ lines' = StripSplit(text)
    /\ start_index' = -1
    /\ result' = "error"
    /\ pc' = "done"
    /\ UNCHANGED <<text, n_force_insert_flag, mm_ss_colon_flag, blocks, parsed_blocks,
                   narration_blocks_for_ai, i, previous_end_hh, output_lines>>
    /\ UNCHANGED review_vars

\* lines 400-419
Assemble ==
    /\ pc = "assemble"
    /\ blocks' = AssembleFrom(SubSeq(lines, start_index + 1, Len(lines)), 1)
    /\ pc' = "parse"
    /\ UNCHANGED <<text, n_force_insert_flag, mm_ss_colon_flag, lines, start_index,
                   parsed_blocks, narration_blocks_for_ai, i, previous_end_hh,
                   output_lines, result>>
    /\ UNCHANGED review_vars

\* lines 421-444
Parse ==
    /\ pc = "parse"
    /\ parsed_blocks' = ParseAll(blocks)
    /\ narration_blocks_for_ai' = AiData(blocks)
    /\ output_lines' = <<>>
    /\ i' = 0
    /\ pc' = "format"
    /\ UNCHANGED <<text, n_force_insert_flag, mm_ss_colon_flag, lines, start_index,
                   blocks, previous_end_hh, result>>
    /\ UNCHANGED review_vars

\* lines 446-575, one iteration
FormatBlock ==
    /\ pc = "format"
    /\ i < Len(parsed_blocks)
    /\ output_lines' = output_lines
           \o IterationLines(parsed_blocks, i, previous_end_hh,
                             n_force_insert_flag, mm_ss_colon_flag)
    /\ previous_end_hh' = parsed_blocks[i + 1].end_hh
    /\ i' = i + 1
    /\ UNCHANGED <<text, n_force_insert_flag, mm_ss_colon_flag, pc, lines, start_index,
                   blocks, parsed_blocks, narration_blocks_for_ai, result>>
    /\ UNCHANGED review_vars

\* line 577
Return ==
    /\ pc = "format"
    /\ i >= Len(parsed_blocks)
    /\ result' = "ok"
    /\ pc' = "done"
    /\ UNCHANGED <<text, n_force_insert_flag, mm_ss_colon_flag, lines, start_index,
                   blocks, parsed_blocks, narration_blocks_for_ai, i, previous_end_hh,
                   output_lines>>
    /\ UNCHANGED review_vars

Next == ScanFound \/ ScanNotFound \/ Assemble \/ Parse \/ FormatBlock \/ Return

\* the state at the call, for an input and options drawn from the given sets
InitWith(texts, forces, colons) ==
    /\ text \in texts
    /\ n_force_insert_flag \in forces
    /\ mm_ss_colon_flag \in colons
    /\ pc = "scan"
    /\ lines = <<>>
    /\ start_index = -1
    /\ blocks = <<>>
    /\ parsed_blocks = <<>>
    /\ narration_blocks_for_ai = <<>>
    /\ i = 0
    /\ previous_end_hh = -1
    /\ output_lines = <<>>
    /\ result = "none"
    /\ ai_check_flag = FALSE
    /\ ai_cache_key = <<>>
    /\ ai_result_cache = <<>>
    /\ display_text = <<>>
    /\ ui_pc = "convert"
    /\ invoked = FALSE
    /\ last_call = <<>>
    /\ prev_call = <<>>

----------------------------------------------------------------------------
(* Inputs.                                                                 *)

MaxBlocks == 3
MaxHour == 2
MaxFrame == 29

\* a timecode line in the frame-exact semicolon form
TimeLine(sh, sm, ss, sf, eh, em, es, ef) ==
    Fmt02(sh) \o <<";">> \o Fmt02(sm) \o <<";">> \o Fmt02(ss) \o <<";">> \o Fmt02(sf)
    \o <<" ", "-", " ">>
    \o Fmt02(eh) \o <<";">> \o Fmt02(em) \o <<";">> \o Fmt02(es) \o <<";">> \o Fmt02(ef)

NarrationText == <<"N", " ", "KA", "KA", "KA", "KA">>

\* inputs without any timecode line
NoTimecodeTexts ==
    {<<>>, << <<>> >>, <<NarrationText>>, <<NarrationText, <<"V", "O", " ", "KI">> >>}

\* blocks whose start and end hours vary (the end at most one hour from the
\* start); block k runs from minute 10k to minute 10k + 5
HourPairs == {p \in (0..MaxHour) \X (0..MaxHour) : p[2] - p[1] \in {-1, 0, 1}}
HourBlocks(hs) ==
    [k \in 1..Len(hs) |->
        <<TimeLine(hs[k][1], 10 * k, 0, 0, hs[k][2], 10 * k + 5, 0, 0), NarrationText>>]
HourTextsOf(n) == {Flatten(HourBlocks(hs)) : hs \in [1..n -> HourPairs]}
HourTexts == UNION {HourTextsOf(n) : n \in 1..MaxBlocks}

\* one block whose start minute, second and frame vary
StartMinutes == {0, 1, 59, 60, 99}
StartSecondsSet == {0, 30, 59}
StartTexts ==
    {<<TimeLine(0, sm, ss, sf, 0, sm, 59, 29), NarrationText>> :
        sm \in StartMinutes, ss \in StartSecondsSet, sf \in 0..MaxFrame}

\* one or two blocks whose first body text varies; a second block starts one
\* frame (connected) or 61 frames (apart) after the end of the first
BodyTextsSet ==
    {NarrationText,
     <<"N", " ", "KA">>, <<"n", " ", "KA">>, <<"ZN", " ", "KA">>, <<"ZN", "Zsp", "KA">>,
     <<"Zn", " ", "KA">>, <<"N", " ", " ", "a", "1", "-", "KA">>,
     <<"N">>, <<"n">>, <<"ZN">>, <<>>,
     <<"V", "O", " ", "KA", "1">>, <<"KA", "KI">>, <<"N", "KA">>, <<"KA", " ", "K", "I">>}
BodyTexts ==
    {<<TimeLine(0, 0, 0, sf, 0, 0, 2, 29), b>> : sf \in {0, 15}, b \in BodyTextsSet}
    \cup {<<TimeLine(0, 0, 0, sf, 0, 0, 2, 29), b,
            TimeLine(0, 0, ns, 0, 0, 0, 9, 0), NarrationText>> :
              sf \in {0, 15}, b \in BodyTextsSet, ns \in {3, 5}}

\* one block whose end time varies, with starts in the same and another hour
\* and minute
EndMinutes == {0, 1, 59}
EndSeconds == {0, 1, 59}
EndTexts ==
    {<<TimeLine(sh, sm, 0, 0, eh, em, es, ef), NarrationText>> :
        sh \in {0, 1}, sm \in {0, 59}, eh \in {1}, em \in EndMinutes,
        es \in EndSeconds, ef \in 0..MaxFrame}

\* frames since 00:00:00;00 at 30 frames per second
Frames(hh, mm, ss, fr) == ((hh * 3600) + (mm * 60) + ss) * 30 + fr

\* the time that is n frames after 00:00:00;00, as <<hh, mm, ss, fr>>
TimeOfFrames(n) ==
    <<n \div (30 * 3600), (n \div (30 * 60)) % 60, (n \div 30) % 60, n % 30>>

\* two blocks: the first ends at e, the second starts gap frames later (earlier
\* for a negative gap) and lasts three seconds
GapText(e, gap) ==
    LET n == Frames(e[1], e[2], e[3], e[4]) + gap
        a == TimeOfFrames(n)
        z == TimeOfFrames(n + 90)
    IN  <<TimeLine(e[1], e[2], 0, 0, e[1], e[2], e[3], e[4]), NarrationText,
          TimeLine(a[1], a[2], a[3], a[4], z[1], z[2], z[3], z[4]), NarrationText>>
Gaps == {-20, 0, 1, 20, 39, 40, 41, 60}
GapEnds == {0, MaxHour} \X {0, 59} \X {1, 5, 58} \X (0..MaxFrame)
GapTexts == {GapText(e, g) : e \in GapEnds, g \in Gaps}

\* timecode lines in the forms the interface declares (lines 627-636): the
\* frame-exact semicolon and colon forms, and the seconds-only form in half or
\* full width with the separator ~, U+301C or -
FrameExactLine(c) ==
    <<"0", "0", c, "0", "0", c, "1", "5", c, "0", "0", " ", "-", " ",
      "0", "0", c, "0", "0", c, "1", "8", c, "0", "0">>
SecondsOnlyLine(ds, c, pad, sep) ==
    <<ds[1], ds[1], c, ds[1], ds[1], c, ds[2], ds[6], pad, sep, pad,
      ds[1], ds[1], c, ds[1], ds[1], c, ds[2], ds[9]>>
\* the second example of the input placeholder (line 632)
PlaceholderLine ==
    <<"Z0", "Z0", ":", "Z0", "Z0", ":", "Z1", "Z5", "Zsp", "Zwave", "Zsp",
      "Z0", "Z0", ":", "Z0", "Z0", "Z:", "Z1", "Z8">>
DeclaredLines ==
    {FrameExactLine(";"), FrameExactLine(":"), PlaceholderLine}
    \cup {SecondsOnlyLine(ds, c, pad, sep) :
            ds \in {HalfDigits, FullDigits}, c \in {":", "Z:"},
            pad \in {" ", "Zsp"}, sep \in {"~", "Zwave", "-"}}
\* other lines: with a '.' frame, with text before the timecode, without an
\* end time, and plain text
OtherLines ==
    {<<"0", "0", ":", "0", "0", ":", "1", "5", ".", "0", "0", "-",
       "0", "0", ":", "0", "0", ":", "1", "8", ".", "0", "0">>,
     <<"x", " ">> \o FrameExactLine(";"),
     <<"0", "0", ";", "0", "0", ";", "1", "5", ";", "0", "0">>,
     <<"K", "A">>}
SyntaxTexts ==
    UNION {{<<l>>, <<l, NarrationText>>, <<NarrationText, l, NarrationText>>,
            << <<"Zsp">>, <<" ">> \o l \o <<" ", "Zsp">>, NarrationText, <<" ">> >>,
            <<l, FrameExactLine(";")>>} :
           l \in DeclaredLines \cup OtherLines}

\* texts of up to MaxLines lines drawn from: three timecode lines (plain,
\* padded with white space, seconds-only in full-width digits), a narration
\* line, an empty line and a start time without its end time
MaxLines == 4
PaddedTimeLine == <<" ">> \o TimeLine(0, 0, 5, 15, 0, 0, 8, 0) \o <<"Zsp">>
LineKinds ==
    {TimeLine(0, 0, 0, 0, 0, 0, 2, 29), PaddedTimeLine,
     SecondsOnlyLine(FullDigits, ":", "Zsp", "Zwave"),
     NarrationText, <<>>,
     <<"0", "0", ";", "0", "0", ";", "1", "5", ";", "0", "0">>}
LineTexts == UNION {[1..n -> LineKinds] : n \in 1..MaxLines}

InitHours == InitWith(HourTexts \cup NoTimecodeTexts, {TRUE}, {FALSE})
SpecHours == InitHours /\ [][Next]_vars

InitStart == InitWith(StartTexts \cup NoTimecodeTexts, BOOLEAN, BOOLEAN)
SpecStart == InitStart /\ [][Next]_vars

InitBody == InitWith(BodyTexts \cup NoTimecodeTexts, BOOLEAN, {FALSE})
SpecBody == InitBody /\ [][Next]_vars

InitEnd == InitWith(EndTexts \cup NoTimecodeTexts, {TRUE}, {FALSE})
SpecEnd == InitEnd /\ [][Next]_vars

InitGap == InitWith(GapTexts \cup NoTimecodeTexts, {TRUE}, {FALSE})
SpecGap == InitGap /\ [][Next]_vars

InitSyntax == InitWith(SyntaxTexts \cup NoTimecodeTexts, BOOLEAN, {FALSE})
SpecSyntax == InitSyntax /\ [][Next]_vars

InitColon ==
    InitWith(HourTextsOf(2) \cup BodyTexts \cup StartTexts \cup NoTimecodeTexts,
             BOOLEAN, BOOLEAN)
SpecColon == InitColon /\ [][Next]_vars

InitLines == InitWith(LineTexts, {TRUE}, {FALSE})
SpecLines == InitLines /\ [][Next]_vars

----------------------------------------------------------------------------
(* One rerun of the page script (source lines 661-715): the conversion,    *)
(* then the review with its cache in the session state.                    *)

\* hashlib.md5(b).hexdigest(): a digest of the bytes, here a checksum of the
\* characters' codes weighted by their positions; a one-element string, <<>>
\* being None
ByteCodes ==
    <<"\n", " ", "-", ";", "[", "]", "N", "V", "O", "KA", "KI">> \o HalfDigits
DigestModulus == 65521
RECURSIVE DigestOfRange(_, _, _)
DigestOfRange(b, lo, hi) ==
    IF lo > hi THEN 0
    ELSE IF lo = hi
         THEN (IndexOf(b[lo], ByteCodes) * ((lo * lo * 31 + lo * 7 + 1) % 251))
                  % DigestModulus
    ELSE LET mid == (lo + hi) \div 2
         IN  (DigestOfRange(b, lo, mid) + DigestOfRange(b, mid + 1, hi)) % DigestModulus
md5_hexdigest(b) == <<DigestOfRange(b, 1, Len(b))>>

\* line 671
input_hash(t) == md5_hexdigest(JoinLines(t))

\* the rows of a table of the review service
HeaderRow ==
    <<"|", " ", "POS", " ", "|", " ", "HONBUN", " ", "|", " ", "TEIAN", " ", "|",
      " ", "RIYUU", " ", "|">>
RuleRow == <<"|", "-", "-", "-", "|", "-", "-", "-", "|", "-", "-", "-", "|",
             "-", "-", "-", "|">>
DataRow(orig, proposal) ==
    <<"|", " ", "1", " ", "|", " ">> \o orig \o <<" ", "|", " ">> \o proposal
    \o <<" ", "|", " ", "RIYUU", " ", "|">>

\* texts check_narration_with_gemini returns (lines 20-62): nothing, the
\* phrase for no findings, an error message, and tables of one or two rows
\* whose second cell occurs or does not occur in the script
Responses ==
    {<<>>,
     <<"SENTINEL">>,
     <<"E", "R", "R">>,
     JoinLines(<<HeaderRow, RuleRow, DataRow(<<"KA", "KA">>, <<"KI", "KI">>)>>),
     JoinLines(<<HeaderRow, RuleRow, DataRow(<<"KA", "KA">>, <<"KI", "KI">>),
                 DataRow(<<"KI">>, <<"KA">>)>>) \o <<"\n">>,
     JoinLines(<<HeaderRow, RuleRow, DataRow(<<"V", "O">>, <<"KI">>)>>)}

\* the texts pasted into the input area: empty, without a timecode, one
\* block, the same block with a line before it or a further line after it
\* (lines the conversion discards), a block with another text, two blocks
RerunTexts ==
    {<<>>,
     <<NarrationText>>,
     <<TimeLine(0, 0, 0, 0, 0, 0, 2, 29), NarrationText>>,
     <<NarrationText, TimeLine(0, 0, 0, 0, 0, 0, 2, 29), NarrationText>>,
     <<TimeLine(0, 0, 0, 0, 0, 0, 2, 29), NarrationText, <<"KI">> >>,
     <<TimeLine(0, 0, 0, 0, 0, 0, 2, 29), <<"N", " ", "KI", "KI">> >>,
     <<TimeLine(0, 0, 0, 0, 0, 0, 2, 29), NarrationText,
       TimeLine(0, 0, 5, 0, 0, 0, 8, 0), <<"N", " ", "KI", "KA", "KA">> >>}

\* the state of convert_narration_script at its call
EngineReset ==
    /\ pc' = "scan"
    /\ lines' = <<>>
    /\ start_index' = -1
    /\ blocks' = <<>>
    /\ parsed_blocks' = <<>>
    /\ narration_blocks_for_ai' = <<>>
    /\ i' = 0
    /\ previous_end_hh' = -1
    /\ output_lines' = <<>>
    /\ result' = "none"

engine_vars == <<pc, lines, start_index, blocks, parsed_blocks, narration_blocks_for_ai,
                 i, previous_end_hh, output_lines, result>>

\* lines 624-663: the widgets give their values, the text is not empty and
\* the conversion is called
Rerun ==
    /\ ui_pc \in {"start", "shown"}
    /\ \E t \in RerunTexts \ {<<>>}, force \in BOOLEAN, check \in BOOLEAN :
          /\ text' = t
          /\ n_force_insert_flag' = force
          /\ ai_check_flag' = check
    /\ mm_ss_colon_flag' = FALSE
    /\ EngineReset
    /\ ui_pc' = "convert"
    /\ invoked' = FALSE
    /\ prev_call' = last_call
    /\ UNCHANGED <<ai_cache_key, ai_result_cache, display_text, last_call>>

\* lines 661 and 723-725: the text is empty, nothing is converted or shown
RerunEmpty ==
    /\ ui_pc \in {"start", "shown"}
    /\ text' = <<>>
    /\ \E check \in BOOLEAN : ai_check_flag' = check
    /\ display_text' = <<>>
    /\ ui_pc' = "shown"
    /\ invoked' = FALSE
    /\ prev_call' = last_call
    /\ UNCHANGED <<n_force_insert_flag, mm_ss_colon_flag, engine_vars,
                   ai_cache_key, ai_result_cache, last_call>>

\* line 664 on the error string of line 398: an exception ends the rerun
ConversionFailed ==
    /\ ui_pc = "convert" /\ pc = "done" /\ result = "error"
    /\ display_text' = <<>>
    /\ ui_pc' = "shown"
    /\ UNCHANGED <<text, n_force_insert_flag, mm_ss_colon_flag, engine_vars,
                   ai_check_flag, ai_cache_key, ai_result_cache, invoked,
                   last_call, prev_call>>

\* lines 664-677 and 711-715: the review is off, the script is shown
ShowConverted ==
    /\ ui_pc = "convert" /\ pc = "done" /\ result = "ok"
    /\ ~ai_check_flag
    /\ display_text' = JoinLines(output_lines)
    /\ ui_pc' = "shown"
    /\ UNCHANGED <<text, n_force_insert_flag, mm_ss_colon_flag, engine_vars,
                   ai_check_flag, ai_cache_key, ai_result_cache, invoked,
                   last_call, prev_call>>

\* a call that stores the answer and leaves the key as it was
ReviewCallKeepingKey ==
    /\ ui_pc = "convert" /\ pc = "done" /\ result = "ok"
    /\ ai_check_flag
    /\ ai_cache_key # input_hash(text)
    /\ \E ai_result_text \in Responses :
          /\ ai_result_cache' = ai_result_text
          /\ display_text' =
                 annotate_narration_with_ai_notes(
                     JoinLines(output_lines), parse_ai_markdown_table(ai_result_text))
          /\ last_call' = <<[input |-> text, payload |-> narration_blocks_for_ai,
                              answer |-> ai_result_text]>>
    /\ invoked' = TRUE
    /\ ui_pc' = "shown"
    /\ UNCHANGED <<text, n_force_insert_flag, mm_ss_colon_flag, engine_vars,
                   ai_check_flag, ai_cache_key, prev_call>>

\* lines 664-710 and 715: the key differs, the service is called, its answer
\* and the key are stored and the annotated script is shown
ReviewCall ==
    /\ ui_pc = "convert" /\ pc = "done" /\ result = "ok"
    /\ ai_check_flag
    /\ ai_cache_key # input_hash(text)
    /\ \E ai_result_text \in Responses :
          /\ ai_result_cache' = ai_result_text
          /\ display_text' =
                 annotate_narration_with_ai_notes(
                     JoinLines(output_lines), parse_ai_markdown_table(ai_result_text))
          /\ last_call' = <<[input |-> text, payload |-> narration_blocks_for_ai,
                              answer |-> ai_result_text]>>
    /\ ai_cache_key' = input_hash(text)
    /\ invoked' = TRUE
    /\ ui_pc' = "shown"
    /\ UNCHANGED <<text, n_force_insert_flag, mm_ss_colon_flag, engine_vars,
                   ai_check_flag, prev_call>>

\* lines 664-679, 708-710 and 715: the key is the same, the stored answer is used
ReviewCached ==
    /\ ui_pc = "convert" /\ pc = "done" /\ result = "ok"
    /\ ai_check_flag
    /\ ai_cache_key = input_hash(text)
    /\ display_text' =
           annotate_narration_with_ai_notes(
               JoinLines(output_lines), parse_ai_markdown_table(ai_result_cache))
    /\ ui_pc' = "shown"
    /\ UNCHANGED <<text, n_force_insert_flag, mm_ss_colon_flag, engine_vars,
                   ai_check_flag, ai_cache_key, ai_result_cache, invoked,
                   last_call, prev_call>>

NextReview ==
    \/ Rerun \/ RerunEmpty
    \/ ScanFound \/ ScanNotFound \/ Assemble \/ Parse \/ FormatBlock \/ Return
    \/ ConversionFailed \/ ShowConverted \/ ReviewCall \/ ReviewCached

\* the page before its first run: an empty session state
InitReview ==
    /\ text = <<>>
    /\ n_force_insert_flag = TRUE
    /\ mm_ss_colon_flag = FALSE
    /\ pc = "done"
    /\ lines = <<>>
    /\ start_index = -1
    /\ blocks = <<>>
    /\ parsed_blocks = <<>>
    /\ narration_blocks_for_ai = <<>>
    /\ i = 0
    /\ previous_end_hh = -1
    /\ output_lines = <<>>
    /\ result = "none"
    /\ ai_check_flag = FALSE
    /\ ai_cache_key = <<>>
    /\ ai_result_cache = <<>>
    /\ display_text = <<>>
    /\ ui_pc = "start"
    /\ invoked = FALSE
    /\ last_call = <<>>
    /\ prev_call = <<>>

SpecReview == InitReview /\ [][NextReview]_vars

----------------------------------------------------------------------------
(* Reading the script back.                                                *)

IsMarkerLine(l) == l # <<>> /\ l[1] = "LB"
IsBlockLine(l) == l # <<>> /\ l[1] # "LB"

\* positions in out of the rendered block lines, in order
BlockPositions(out) ==
    SelectSeq([k \in 1..Len(out) |-> k], LAMBDA k : IsBlockLine(out[k]))

\* the marker line of hour h
MarkerText(h) ==
    <<"LB">>
    \o (IF h < 10 THEN <<FullDigits[h + 1]>>
        ELSE <<FullDigits[(h \div 10) + 1], FullDigits[(h % 10) + 1]>>)
    \o <<"ZH", "RB">>

\* a marker (blank line, marker line) stands immediately before position pos
MarkerBefore(out, pos) == pos > 1 /\ IsMarkerLine(out[pos - 1])

EndsWith(l, suf) == Len(l) >= Len(suf) /\ SubSeq(l, Len(l) - Len(suf) + 1, Len(l)) = suf

Finished == pc = "done" /\ result = "ok"

----------------------------------------------------------------------------
(* C2: for every processed block j, an hour marker stands immediately      *)
(* before its rendered line iff (j = 0 and startHour > 0) or (j > 0 and    *)
(* (startHour < endHour or startHour > endHour of block j-1)); the marker  *)
(* is a blank line and the line of startHour for j = 0, of endHour when    *)
(* startHour < endHour and of startHour otherwise; and the carried         *)
(* previous_end_hh is the end hour of the block processed last.            *)
HourMarkerRule ==
    pc \in {"format", "done"} /\ result # "error" =>
        /\ Len(BlockPositions(output_lines)) = i
        /\ i > 0 => previous_end_hh = parsed_blocks[i].end_hh
        /\ \A j \in 0..(i - 1) :
              LET b == parsed_blocks[j + 1]
                  pos == BlockPositions(output_lines)[j + 1]
                  expected == \/ j = 0 /\ b.start_hh > 0
                              \/ j > 0 /\ \/ b.start_hh < b.end_hh
                                          \/ b.start_hh > parsed_blocks[j].end_hh
                  hour == IF j = 0 THEN b.start_hh
                          ELSE IF b.start_hh < b.end_hh THEN b.end_hh
                          ELSE b.start_hh
              IN  /\ MarkerBefore(output_lines, pos) <=> expected
                  /\ MarkerBefore(output_lines, pos) =>
                        /\ output_lines[pos - 1] = MarkerText(hour)
                        /\ pos > 2 /\ output_lines[pos - 2] = <<>>

\* a third block announces its own end hour although the second block, which
\* got no marker, already ended in the hour the third starts in
HourMarkerWitness ==
    /\ Finished
    /\ Len(parsed_blocks) = 3
    /\ parsed_blocks[1].start_hh = 1
    /\ parsed_blocks[2].start_hh = 1 /\ parsed_blocks[2].end_hh = 1
    /\ parsed_blocks[3].start_hh = 1 /\ parsed_blocks[3].end_hh = 2
    /\ MarkerBefore(output_lines, BlockPositions(output_lines)[1])
    /\ ~MarkerBefore(output_lines, BlockPositions(output_lines)[2])
    /\ MarkerBefore(output_lines, BlockPositions(output_lines)[3])

----------------------------------------------------------------------------
(* C8: for blocks in chronological order (start <= end <= next start),     *)
(* every clock hour h > 0 in which a block starts or ends has its marker   *)
(* line in the script.                                                     *)
Chronological(bs) ==
    /\ \A k \in 1..Len(bs) :
          Frames(bs[k].start_hh, bs[k].start_mm, bs[k].start_ss, bs[k].start_fr)
              <= Frames(bs[k].end_hh, bs[k].end_mm, bs[k].end_ss, bs[k].end_fr)
    /\ \A k \in 1..(Len(bs) - 1) :
          Frames(bs[k].end_hh, bs[k].end_mm, bs[k].end_ss, bs[k].end_fr)
              <= Frames(bs[k + 1].start_hh, bs[k + 1].start_mm,
                        bs[k + 1].start_ss, bs[k + 1].start_fr)

EveryHourAnnounced ==
    Finished /\ Chronological(parsed_blocks) =>
        \A k \in 1..Len(parsed_blocks) :
            \A h \in {parsed_blocks[k].start_hh, parsed_blocks[k].end_hh} :
                h > 0 => \E n \in 1..Len(output_lines) : output_lines[n] = MarkerText(h)

----------------------------------------------------------------------------
(* C4: for every block, with t = (startMinute mod 60)*60 + startSecond + r *)
(* where r = 1 for a start frame in 23..29 and r = 0 for one in 0..22, the *)
(* start-time label is the full-width digits of mm = (t div 60) mod 60 and *)
(* ss = t mod 60 (a full-width colon between them under colonSeparatedTime);*)
(* the suffix HAN follows the label, and the spacer is 2 full-width spaces *)
(* instead of 3, iff the start frame is in 10..22.                         *)
FullWidth2(n) == <<FullDigits[(n \div 10) + 1], FullDigits[(n % 10) + 1]>>

LabelOf(b, colon) ==
    LET r == IF b.start_fr \in 23..29 THEN 1 ELSE 0
        t == (b.start_mm % 60) * 60 + b.start_ss + r
    IN  FullWidth2((t \div 60) % 60) \o (IF colon THEN <<"Z:">> ELSE <<>>)
        \o FullWidth2(t % 60)

\* number of full-width spaces of l from position p on
RECURSIVE SpacesFrom(_, _)
SpacesFrom(l, p) == IF p <= Len(l) /\ l[p] = "Zsp" THEN 1 + SpacesFrom(l, p + 1) ELSE 0

StartLabelRule ==
    pc \in {"format", "done"} /\ result # "error" =>
        \A j \in 0..(i - 1) :
            LET b == parsed_blocks[j + 1]
                l == output_lines[BlockPositions(output_lines)[j + 1]]
                n == IF mm_ss_colon_flag THEN 5 ELSE 4
                half == Len(l) > n /\ l[n + 1] = "HAN"
                sp == SpacesFrom(l, IF half THEN n + 2 ELSE n + 1)
            IN  /\ b.start_fr \in 0..29 => StartsWith(l, LabelOf(b, mm_ss_colon_flag))
                /\ half <=> b.start_fr \in 10..22
                /\ sp = (IF b.start_fr \in 10..22 THEN 2 ELSE 3)

\* 59:59 with a frame of 23..29 is displayed as 0000
StartLabelWitness ==
    /\ Finished
    /\ Len(parsed_blocks) = 1
    /\ parsed_blocks[1].start_mm = 59 /\ parsed_blocks[1].start_ss = 59
    /\ parsed_blocks[1].start_fr = 23
    /\ ~mm_ss_colon_flag
    /\ StartsWith(output_lines[1], <<"Z0", "Z0", "Z0", "Z0", "Zsp", "Zsp", "Zsp", "ZN">>)

----------------------------------------------------------------------------
(* Speaker and body (C5, C6).                                              *)

\* the input and the line of Scenario 1
Scenario1Text == <<TimeLine(0, 0, 0, 0, 0, 0, 2, 29), NarrationText>>
Scenario1Line ==
    <<"Z0", "Z0", "Z0", "Z0", "Zsp", "Zsp", "Zsp", "ZN", "Zsp", "KA", "KA", "KA", "KA",
      " ", "(", "Ztilde", "Z0", "Z2", ")">>
Scenario2Line ==
    <<"Z0", "Z0", "Z0", "Z0", "Zsp", "Zsp", "Zsp", "KA", "KA", "KA", "KA",
      " ", "(", "Ztilde", "Z0", "Z2", ")">>

NarratorTokens == {"N", "n", "ZN"}

\* t is the narrator token alone, or the token followed by white space
IsNarratorTagged(t) ==
    t # <<>> /\ t[1] \in NarratorTokens /\ (Len(t) = 1 \/ IsSpace(t[2]))

\* t splits into a leading token, white space and a remainder
HasSplit(t) == t # <<>> /\ ~IsSpace(t[1]) /\ \E k \in 1..Len(t) : IsSpace(t[k])
FirstSpace(t) == CHOOSE k \in 1..Len(t) : IsSpace(t[k]) /\ \A m \in 1..(k - 1) : ~IsSpace(t[m])
LeadingToken(t) == SubSeq(t, 1, FirstSpace(t) - 1)
Remainder(t) == Strip(SubSeq(t, FirstSpace(t), Len(t)))

\* the placeholder replaces an empty body; the body is converted to full width
Displayed(b) == to_zenkaku_all(IF Strip(b) = <<>> THEN NoBodyText ELSE b)

\* start label, spacer and end suffix of processed block j, as rendered
Before(j) ==
    formatted_start_time(parsed_blocks[j + 1], mm_ss_colon_flag)
    \o spacer(parsed_blocks[j + 1])
After(j) == end_string(parsed_blocks, j)
LineOf(j) == output_lines[BlockPositions(output_lines)[j + 1]]

Formatting == pc \in {"format", "done"} /\ result # "error"

(* C5 as stated: with forceNarratorTag off, a block whose text begins with *)
(* the narrator token followed by white space is rendered with the token   *)
(* stripped and no speaker symbol; Scenario 1's input gives Scenario 2's   *)
(* line.                                                                   *)
NarratorTokenStripped ==
    Formatting /\ ~n_force_insert_flag =>
        /\ \A j \in 0..(i - 1) :
              LET t == parsed_blocks[j + 1].text
              IN  IsNarratorTagged(t) /\ Len(t) > 1 =>
                      LineOf(j) = Before(j) \o to_zenkaku_all(Remainder(t)) \o After(j)
        /\ Finished /\ text = Scenario1Text => output_lines = <<Scenario2Line>>

(* C5 as amended: with forceNarratorTag off, no speaker symbol is added    *)
(* and the whole body text, a leading narrator token included, is rendered *)
(* (converted to full width; the placeholder when it is empty); Scenario   *)
(* 1's input gives the same line as with the option on.                    *)
WholeTextRendered ==
    Formatting /\ ~n_force_insert_flag =>
        /\ \A j \in 0..(i - 1) :
              LineOf(j) = Before(j) \o Displayed(parsed_blocks[j + 1].text) \o After(j)
        /\ Finished /\ text = Scenario1Text => output_lines = <<Scenario1Line>>

WholeTextWitness ==
    /\ Finished /\ ~n_force_insert_flag
    /\ text = Scenario1Text
    /\ output_lines = <<Scenario1Line>>

\* speaker symbol and body of C6, before the display conversion
SpeakerOf(t) ==
    IF IsNarratorTagged(t) THEN <<"ZN">>
    ELSE IF HasSplit(t) THEN to_zenkaku_all(LeadingToken(t))
    ELSE <<"ZN">>
BodyOf(t) ==
    IF IsNarratorTagged(t) THEN Strip(SubSeq(t, 2, Len(t)))
    ELSE IF HasSplit(t) THEN Remainder(t)
    ELSE t

(* C6 as stated: with forceNarratorTag on, every line is start, spacer,    *)
(* speaker symbol, one full-width space, body, end suffix, the symbol and  *)
(* the body (in full width) being those of the three cases of the claim;   *)
(* Scenario 1 gives its line.                                              *)
SpeakerAndBody ==
    Formatting /\ n_force_insert_flag =>
        /\ \A j \in 0..(i - 1) :
              LET t == parsed_blocks[j + 1].text
              IN  LineOf(j) = Before(j) \o SpeakerOf(t) \o <<"Zsp">>
                              \o to_zenkaku_all(BodyOf(t)) \o After(j)
        /\ Finished /\ text = Scenario1Text => output_lines = <<Scenario1Line>>

(* C6 as amended: the same, except that a body that is empty (the narrator *)
(* token alone, or no text) is replaced by the placeholder of line 532.    *)
SpeakerAndBodyOrPlaceholder ==
    Formatting /\ n_force_insert_flag =>
        /\ \A j \in 0..(i - 1) :
              LET t == parsed_blocks[j + 1].text
              IN  LineOf(j) = Before(j) \o SpeakerOf(t) \o <<"Zsp">>
                              \o Displayed(BodyOf(t)) \o After(j)
        /\ Finished /\ text = Scenario1Text => output_lines = <<Scenario1Line>>

\* a custom speaker in full width, and the placeholder for the token alone
SpeakerAndBodyWitness ==
    /\ Finished /\ n_force_insert_flag
    /\ Len(parsed_blocks) = 2
    /\ parsed_blocks[1].text = <<"N">>
    /\ output_lines[1] = <<"Z0", "Z0", "Z0", "Z0", "Zsp", "Zsp", "Zsp", "ZN", "Zsp">>
                         \o NoBodyText \o <<" ", "(", "Ztilde", "Z0", "Z2", ")">>

----------------------------------------------------------------------------
(* C10: whenever a block shows an end-time suffix, the displayed end time  *)
(* is (endMinute, endSecond) moved back by one second iff endFrame is in   *)
(* 0..9, borrowing from the minute when the second underflows and taking   *)
(* the minute modulo 60; it is written as four full-width digits mmss if   *)
(* startHour # endHour or the adjusted minute differs from startMinute mod *)
(* 60, as two digits ss otherwise, wrapped as ' (~<digits>)'.              *)
DisplayedEnd(b) ==
    LET back == b.end_fr \in 0..9
    IN  IF back /\ b.end_ss = 0 THEN <<(b.end_mm + 59) % 60, 59>>
        ELSE <<b.end_mm % 60, IF back THEN b.end_ss - 1 ELSE b.end_ss>>

EndSuffixOf(b) ==
    LET d == DisplayedEnd(b)
    IN  <<" ", "(", "Ztilde">>
        \o (IF b.start_hh # b.end_hh \/ d[1] # b.start_mm % 60
            THEN FullWidth2(d[1]) \o FullWidth2(d[2])
            ELSE FullWidth2(d[2]))
        \o <<")">>

\* the rendered line ends with an end-time suffix
HasEndSuffix(l) ==
    /\ Len(l) >= 6 /\ l[Len(l)] = ")"
    /\ \/ SubSeq(l, Len(l) - 5, Len(l) - 3) = <<" ", "(", "Ztilde">>
       \/ Len(l) >= 8 /\ SubSeq(l, Len(l) - 7, Len(l) - 5) = <<" ", "(", "Ztilde">>

EndTimeRule ==
    Formatting =>
        \A j \in 0..(i - 1) :
            HasEndSuffix(LineOf(j)) =>
                LineOf(j) = Before(j) \o speaker_symbol(parsed_blocks[j + 1].text, TRUE)
                            \o <<"Zsp">> \o body(parsed_blocks[j + 1].text, TRUE)
                            \o EndSuffixOf(parsed_blocks[j + 1])

\* minute 00 second 00 with a frame of 0..9 is displayed as 5959
EndTimeWitness ==
    /\ Finished
    /\ Len(parsed_blocks) = 1
    /\ parsed_blocks[1].end_mm = 0 /\ parsed_blocks[1].end_ss = 0
    /\ parsed_blocks[1].end_fr = 9
    /\ parsed_blocks[1].start_hh = 0 /\ parsed_blocks[1].start_mm = 59
    /\ EndsWith(output_lines[1], <<"KA", " ", "(", "Ztilde", "Z5", "Z9", "Z5", "Z9", ")">>)

----------------------------------------------------------------------------
(* C3: a block's rendered line carries an end-time suffix iff it is the    *)
(* last block or the gap to the next block's start (hours included, 30     *)
(* frames per second) is at least 40 frames; a blank separator line        *)
(* follows it iff it carries the suffix and is not the last block.         *)
GapAfter(bs, k) ==
    Frames(bs[k + 1].start_hh, bs[k + 1].start_mm, bs[k + 1].start_ss, bs[k + 1].start_fr)
    - Frames(bs[k].end_hh, bs[k].end_mm, bs[k].end_ss, bs[k].end_fr)

\* the lines between the rendered lines of blocks k and k+1 (1-based), less the
\* two lines of a marker standing before block k+1
SeparatorsAfter(out, k) ==
    LET ps == BlockPositions(out)
    IN  ps[k + 1] - ps[k] - 1 - (IF MarkerBefore(out, ps[k + 1]) THEN 2 ELSE 0)

EndSuffixRule ==
    Finished =>
        /\ \A k \in 1..(Len(parsed_blocks) - 1) :
              /\ HasEndSuffix(LineOf(k - 1)) <=> GapAfter(parsed_blocks, k) >= 40
              /\ SeparatorsAfter(output_lines, k)
                     = (IF HasEndSuffix(LineOf(k - 1)) THEN 1 ELSE 0)
        /\ HasEndSuffix(LineOf(Len(parsed_blocks) - 1))
        /\ BlockPositions(output_lines)[Len(parsed_blocks)] = Len(output_lines)

----------------------------------------------------------------------------
(* C1: the error is returned (no script, no partial document, no review    *)
(* payload) exactly when no line of the input matches the dual-timecode    *)
(* pattern after normalisation; when a line matches, the result is no      *)
(* error and its script is not the empty string.                           *)
LineMatches(l) == time_pattern(normalized_line(l))

\* len("\n".join(out))
RECURSIVE TotalLen(_)
TotalLen(out) == IF out = <<>> THEN 0 ELSE Len(Head(out)) + TotalLen(Tail(out))
ScriptLength(out) == IF out = <<>> THEN 0 ELSE TotalLen(out) + Len(out) - 1

NoTimecodeFoundRule ==
    pc = "done" =>
        /\ result = "error" <=> ~\E k \in 1..Len(text) : LineMatches(text[k])
        /\ result = "error" =>
              output_lines = <<>> /\ narration_blocks_for_ai = <<>> /\ parsed_blocks = <<>>
        /\ result # "error" => result = "ok" /\ ScriptLength(output_lines) > 0

\* a timecode line found after a line of plain text
NoTimecodeFoundWitness ==
    /\ Finished
    /\ start_index = 1
    /\ ~LineMatches(text[1]) /\ LineMatches(text[2])
    /\ Len(parsed_blocks) = 1 /\ ScriptLength(output_lines) > 0

----------------------------------------------------------------------------
(* C7: every input form the interface declares as accepted is recognised   *)
(* as a timecode line: it yields a block, never the error.                 *)
DeclaredFormsAccepted ==
    pc = "done" /\ text # <<>> /\ text[1] \in DeclaredLines =>
        result = "ok" /\ Len(parsed_blocks) >= 1

----------------------------------------------------------------------------
(* C9: colonSeparatedTime is a display toggle only: for the same input and *)
(* forceNarratorTag, the results with the option on and off have the same  *)
(* review payload and number of script lines, the same hour markers and    *)
(* blank lines, and each block line differs only by a full-width colon     *)
(* between mm and ss of its start-time label.                              *)
ColonToggleRule ==
    pc = "done" =>
        LET other == convert_narration_script(text, n_force_insert_flag, ~mm_ss_colon_flag)
            on == IF mm_ss_colon_flag THEN output_lines ELSE other.narration_script
            off == IF mm_ss_colon_flag THEN other.narration_script ELSE output_lines
        IN  /\ other.result = result
            /\ other.ai_data = narration_blocks_for_ai
            /\ Len(on) = Len(off)
            /\ \A k \in 1..Len(off) :
                  IF IsBlockLine(off[k])
                  THEN on[k] = SubSeq(off[k], 1, 2) \o <<"Z:">> \o SubSeq(off[k], 3, Len(off[k]))
                  ELSE on[k] = off[k]

\* with the option on: a marker, a blank separator and a rounded-up half label
ColonToggleWitness ==
    /\ Finished /\ mm_ss_colon_flag
    /\ Len(output_lines) = 6
    /\ output_lines[1] = <<>> /\ output_lines[2] = MarkerText(1)
    /\ output_lines[3][3] = "Z:"
    /\ output_lines[4] = <<>> /\ output_lines[5] = MarkerText(2)
    /\ output_lines[6][3] = "Z:"

----------------------------------------------------------------------------
(* C11: from the first matching line onward every line that matches the    *)
(* timecode pattern yields exactly one block, in input order: its text is  *)
(* the next line if and only if that line is no timecode line (empty       *)
(* otherwise), no assembled block is dropped by the parser, and the        *)
(* rendered block lines, the review payload entries and the timecode lines *)
(* are equally many, the payload holding the raw time/text pairs in order. *)

\* relevant_lines of the finished run
RelevantLines == SubSeq(lines, start_index + 1, Len(lines))

\* positions in rl of the lines the scanner's test accepts, in order
TimecodePositions(rl) ==
    SelectSeq([k \in 1..Len(rl) |-> k], LAMBDA k : LineMatches(rl[k]))

\* the text that belongs to the timecode line at position p of rl
TextAfter(rl, p) ==
    IF p + 1 <= Len(rl) /\ ~LineMatches(rl[p + 1]) THEN Strip(rl[p + 1]) ELSE <<>>

OneBlockPerTimecodeLine ==
    Finished =>
        LET rl == RelevantLines
            tp == TimecodePositions(rl)
        IN  /\ Len(blocks) = Len(tp)
            /\ Len(parsed_blocks) = Len(blocks)
            /\ Len(narration_blocks_for_ai) = Len(tp)
            /\ Len(BlockPositions(output_lines)) = Len(tp)
            /\ \A j \in 1..Len(tp) :
                  /\ narration_blocks_for_ai[j].time = Strip(rl[tp[j]])
                  /\ narration_blocks_for_ai[j].text = TextAfter(rl, tp[j])
                  /\ blocks[j].time = Strip(rl[tp[j]])
                  /\ blocks[j].text = TextAfter(rl, tp[j])
                  /\ parsed_blocks[j].text = blocks[j].text

\* a plain line first, then two timecode lines in a row (the first without
\* text), the second with its text
OneBlockPerTimecodeLineWitness ==
    /\ Finished
    /\ start_index = 1
    /\ Len(lines) = 4
    /\ LineMatches(lines[2]) /\ LineMatches(lines[3]) /\ ~LineMatches(lines[4])
    /\ lines[2] # lines[3]
    /\ Len(narration_blocks_for_ai) = 2
    /\ narration_blocks_for_ai[1].text = <<>>
    /\ narration_blocks_for_ai[2].text = NarrationText

----------------------------------------------------------------------------
(* C12: across reruns with the review on, the service is called on a rerun *)
(* only if the fingerprint of the current review payload differs from the  *)
(* one recorded at the previous call; a rerun whose payload is unchanged   *)
(* uses the stored answer and makes no call; after every call the stored   *)
(* key is the fingerprint of the payload that was sent.                    *)

\* the text sent for a payload (line 28)
formatted_text(narration_blocks) ==
    JoinLines([k \in 1..Len(narration_blocks) |->
                  <<"[">> \o narration_blocks[k].time \o <<"]", " ">>
                  \o narration_blocks[k].text])
PayloadFingerprint(narration_blocks) == md5_hexdigest(formatted_text(narration_blocks))

\* a rerun is over, its text was converted and the review is on
ReviewedRerun == ui_pc = "shown" /\ ai_check_flag /\ text # <<>> /\ result = "ok"

CacheKeyedByPayload ==
    ReviewedRerun =>
        /\ invoked =>
              \/ prev_call = <<>>
              \/ PayloadFingerprint(prev_call[1].payload)
                     # PayloadFingerprint(narration_blocks_for_ai)
        /\ (prev_call # <<>> /\ prev_call[1].payload = narration_blocks_for_ai) =>
              ~invoked /\ last_call = prev_call
        /\ invoked => ai_cache_key = PayloadFingerprint(last_call[1].payload)

(* C12 as amended: the key is the fingerprint of the input text.  On a     *)
(* rerun with the review on and a converted text the service is called     *)
(* exactly when the fingerprint of the input text differs from the one of  *)
(* the text of the previous call; otherwise no call is made and the stored *)
(* answer is used; the stored key and answer are always those of the       *)
(* latest call.                                                            *)
CacheKeyedByInputText ==
    ui_pc = "shown" =>
        /\ ReviewedRerun =>
              /\ invoked <=> (prev_call = <<>>
                                \/ input_hash(prev_call[1].input) # input_hash(text))
              /\ ai_cache_key = input_hash(text)
              /\ display_text =
                     annotate_narration_with_ai_notes(
                         JoinLines(output_lines),
                         parse_ai_markdown_table(last_call[1].answer))
        /\ ~ReviewedRerun => ~invoked
        /\ invoked => last_call[1].input = text
                        /\ last_call[1].payload = narration_blocks_for_ai
        /\ ~invoked => last_call = prev_call
        /\ ai_cache_key = (IF last_call = <<>> THEN <<>>
                           ELSE input_hash(last_call[1].input))
        /\ ai_result_cache = (IF last_call = <<>> THEN <<>> ELSE last_call[1].answer)

\* the payload of the previous call is sent again, for another input text
CacheKeyedByInputTextWitness ==
    /\ ReviewedRerun /\ invoked
    /\ prev_call # <<>>
    /\ prev_call[1].payload = narration_blocks_for_ai
    /\ prev_call[1].input # text

----------------------------------------------------------------------------
(* C13: when the review service returns a table of rows, the displayed     *)
(* text is the script with annotations added and nothing changed: deleting *)
(* the note lines gives back the script exactly, and for each returned row *)
(* whose originalText is a substring of a script line a note line for that *)
(* row stands directly below that line, so that at least one note appears  *)
(* whenever some row's originalText occurs in the script.                  *)

\* a note line: the indent, the reference mark and a remark
IsNoteLine(l) == StartsWith(l, INDENT \o <<"REFMARK">>)

\* the displayed lines without the note lines
WithoutNotes(dl) == SelectSeq(dl, LAMBDA l : ~IsNoteLine(l))

\* the note lines that follow position p of dl without another line between
RECURSIVE NotesBelow(_, _)
NotesBelow(dl, p) ==
    IF p + 1 <= Len(dl) /\ IsNoteLine(dl[p + 1])
    THEN <<dl[p + 1]>> \o NotesBelow(dl, p + 1)
    ELSE <<>>

\* positions in dl of the lines that are no note lines, in order
ScriptPositions(dl) ==
    SelectSeq([k \in 1..Len(dl) |-> k], LAMBDA k : ~IsNoteLine(dl[k]))

\* the rows of the stored answer
ReturnedRows == parse_ai_markdown_table(ai_result_cache)

\* row r names a text that occurs in line l
RowOccursIn(r, l) == r.orig # <<>> /\ Contains(l, r.orig)

NotesBelowMatchedLines ==
    ReviewedRerun /\ ReturnedRows # <<>> =>
        LET dl == SplitLines(display_text)
            sp == ScriptPositions(dl)
        IN  /\ WithoutNotes(dl) = output_lines
            /\ \A k \in 1..Len(output_lines) : \A j \in 1..Len(ReturnedRows) :
                  RowOccursIn(ReturnedRows[j], output_lines[k]) =>
                      /\ k <= Len(sp)
                      /\ \E n \in 1..Len(NotesBelow(dl, sp[k])) :
                            Contains(NotesBelow(dl, sp[k])[n], ReturnedRows[j].proposal)
            /\ (\E k \in 1..Len(output_lines) : \E j \in 1..Len(ReturnedRows) :
                    RowOccursIn(ReturnedRows[j], output_lines[k]))
                  => \E n \in 1..Len(dl) : IsNoteLine(dl[n])

====
